---- MODULE Spec2Model ----
(***************************************************************************)
(* Model of orchestrate_devtools_implementation.py: the component table,   *)
(* the build order, and main() driving phases 1..6 inside one try/except.  *)
(*                                                                         *)
(* Every statement of the script that performs I/O (print, write_text,     *)
(* mkdir, open/json.load) either completes or raises an Exception; the     *)
(* environment decides which.  An exception raised inside main's try block *)
(* propagates to the handler at line 560, which returns 1.                 *)
(***************************************************************************)
EXTENDS Integers, Sequences, FiniteSets, TLC

(***************************************************************************)
(* Bounds of the model (not program constants).                            *)
(***************************************************************************)
\* max_parallel_agents values the configuration file may hold:
\* (0 - NegParallel) .. MaxParallel
MaxParallel == 3
NegParallel == 1
\* largest number of declared integration tests the environment reports
MaxTests == 10

(***************************************************************************)
(* COMPONENTS (lines 38-136): a dict literal; iteration order is insertion *)
(* order, so the table is a sequence of entries keyed by name.             *)
(***************************************************************************)
ComponentTable ==
    << [name |-> "cdp_types", level |-> 0, type |-> "base",
        dependencies |-> << >>],
       [name |-> "cdp_server", level |-> 1, type |-> "core",
        dependencies |-> <<"cdp_types">>],
       [name |-> "protocol_handler", level |-> 1, type |-> "core",
        dependencies |-> <<"cdp_types">>],
       [name |-> "dom_domain", level |-> 2, type |-> "feature",
        dependencies |-> <<"cdp_types", "protocol_handler">>],
       [name |-> "network_domain", level |-> 2, type |-> "feature",
        dependencies |-> <<"cdp_types", "protocol_handler">>],
       [name |-> "runtime_debugger", level |-> 2, type |-> "feature",
        dependencies |-> <<"cdp_types", "protocol_handler">>],
       [name |-> "profiler_domains", level |-> 2, type |-> "feature",
        dependencies |-> <<"cdp_types", "protocol_handler">>],
       [name |-> "console_storage", level |-> 2, type |-> "feature",
        dependencies |-> <<"cdp_types", "protocol_handler">>],
       [name |-> "browser_page_domains", level |-> 2, type |-> "feature",
        dependencies |-> <<"cdp_types", "protocol_handler">>],
       [name |-> "devtools_component", level |-> 3, type |-> "integration",
        dependencies |-> <<"cdp_types", "cdp_server", "protocol_handler",
                           "dom_domain", "network_domain", "runtime_debugger",
                           "profiler_domains", "console_storage",
                           "browser_page_domains">>],
       [name |-> "devtools_api", level |-> 4, type |-> "application",
        dependencies |-> <<"devtools_component">>] >>

\* The table with the level of devtools_component written as 2 (a slip in
\* the hand-maintained "level" field).
COMPONENTS_mislevelled == [ComponentTable EXCEPT ![10].level = 2]

COMPONENTS == ComponentTable

\* BUILD_ORDER (lines 139-151): a hand-written list of lists.
BUILD_ORDER ==
    << <<"cdp_types">>,
       <<"cdp_server", "protocol_handler">>,
       <<"dom_domain", "network_domain", "runtime_debugger",
         "profiler_domains", "console_storage", "browser_page_domains">>,
       <<"devtools_component">>,
       <<"devtools_api">> >>

Range(s) == { s[i] : i \in 1..Len(s) }

\* list(COMPONENTS): the keys, in insertion order
ComponentNames == [ i \in 1..Len(COMPONENTS) |-> COMPONENTS[i].name ]

\* COMPONENTS[comp]: the dict lookup
ComponentInfo(comp) ==
    COMPONENTS[CHOOSE i \in 1..Len(COMPONENTS) : COMPONENTS[i].name = comp]

\* get_components_at_level with the comparison written <= instead of ==
get_components_at_level_upto(level) ==
    LET Pick(i) == COMPONENTS[i].level <= level
        idx == SelectSeq([ i \in 1..Len(COMPONENTS) |-> i ], Pick)
    IN  [ j \in 1..Len(idx) |-> COMPONENTS[idx[j]].name ]

\* get_components_at_level (lines 430-432): a list comprehension over
\* COMPONENTS.items(), so the result keeps insertion order.
get_components_at_level(level) ==
    LET Pick(i) == COMPONENTS[i].level = level
        idx == SelectSeq([ i \in 1..Len(COMPONENTS) |-> i ], Pick)
    IN  [ j \in 1..Len(idx) |-> COMPONENTS[idx[j]].name ]

\* generate_claude_md (lines 161-358): of the rendered text, the fields
\* that depend on the table: name, type, level and the dependency list
\* ("- None (base component)" when there are no dependencies).
generate_claude_md(component_name, component_info) ==
    [ component |-> component_name,
      type      |-> component_info.type,
      level     |-> component_info.level,
      deps_list |-> IF component_info.dependencies = << >>
                    THEN <<"None (base component)">>
                    ELSE component_info.dependencies ]

\* the contract text of phase_3_contracts (lines 401-422): name, type and
\* the dependency list ("[]" when empty).
contract_content(component_name, component_info) ==
    [ name         |-> component_name,
      type         |-> component_info.type,
      dependencies |-> IF component_info.dependencies # << >>
                       THEN component_info.dependencies
                       ELSE <<"[]">> ]

\* The exit codes the module docstring documents (lines 16-23), by the
\* phase function of main that failed: phase_3_contracts is "Contract"
\* (4) and phase_4_parallel_development is "Development" (3).
DocumentedExitCode(phase) ==
    CASE phase = 1 -> 1
      [] phase = 2 -> 2
      [] phase = 3 -> 4
      [] phase = 4 -> 3
      [] phase = 5 -> 5
      [] phase = 6 -> 6
      [] OTHER     -> 0

(***************************************************************************)
(* State.                                                                  *)
(*   pc               position in main / the running phase function        *)
(*   entered          phase functions called so far, in call order         *)
(*   completed        phase functions that returned normally, in order     *)
(*   failed_phase     the phase whose body raised (0: none, or raised      *)
(*                    outside every phase function)                        *)
(*   exit_code        the value handed to sys.exit (NoExit while running)  *)
(*   claude_md        CLAUDE.md files written by phase 2, in write order   *)
(*   contract_files   contract files written by phase 3, in write order    *)
(*   config_file      environment: << >> when orchestration-config.json or *)
(*                    its key is missing, else <<max_parallel_agents>>     *)
(*   config_reads     number of calls of read_config                       *)
(*   max_parallel     the local of phase 4: << >> until bound              *)
(*   level_idx, level_components, comp_iter, comp                          *)
(*                    the two for-loops of phase 4 (comp_iter: items the   *)
(*                    inner iterator has handed out)                       *)
(*   planned          the per-component lines phase 4 has emitted          *)
(*   test_report      environment: what the integration tests of phase 5   *)
(*                    would report, << >> before phase 5                   *)
(***************************************************************************)
VARIABLES pc, entered, completed, failed_phase, exit_code,
          claude_md, contract_files,
          config_file, config_reads, max_parallel,
          level_idx, level_components, comp_iter, comp, planned,
          test_report

vars == << pc, entered, completed, failed_phase, exit_code,
           claude_md, contract_files,
           config_file, config_reads, max_parallel,
           level_idx, level_components, comp_iter, comp, planned,
           test_report >>

ctl      == << pc, entered, completed, failed_phase, exit_code >>
files    == << claude_md, contract_files >>
cfg      == << config_file, config_reads, max_parallel >>
loops    == << level_idx, level_components, comp_iter, comp >>

NoExit == 0 - 1

ConfigValues == (0 - NegParallel) .. MaxParallel

TestReports ==
    { [total |-> t, executed |-> e, failed |-> f] :
        t \in 0..MaxTests, e \in 0..MaxTests, f \in 0..MaxTests }

\* a report a test run can produce: executed <= total, failed <= executed
PossibleReport(r) == r.executed <= r.total /\ r.failed <= r.executed

Init ==
    /\ pc = "banner"
    /\ entered = << >>
    /\ completed = << >>
    /\ failed_phase = 0
    /\ exit_code = NoExit
    /\ claude_md = << >>
    /\ contract_files = << >>
    /\ config_file \in { << >> } \cup { <<k>> : k \in ConfigValues }
    /\ config_reads = 0
    /\ max_parallel = << >>
    /\ level_idx = 0 - 1
    /\ level_components = << >>
    /\ comp_iter = 0
    /\ comp = ""
    /\ planned = << >>
    /\ test_report = << >>

(***************************************************************************)
(* main's sequencing (lines 525-558): where control goes when phase        *)
(* function `phase` returns.                                               *)
(***************************************************************************)
NextInMain(phase) ==
    CASE phase = 1 -> "phase2_enter"
      [] phase = 2 -> "phase3_enter"
      [] phase = 3 -> "phase4_enter"
      [] phase = 4 -> "phase5"
      [] phase = 5 -> "phase6"
      [] phase = 6 -> "complete"
      [] OTHER     -> "done"

\* An except clause that logs the error and lets main carry on with the
\* next phase.
RaiseSwallowed(phase) ==
    /\ pc' = NextInMain(phase)
    /\ failed_phase' = phase
    /\ exit_code' = exit_code
    /\ completed' = completed

\* An Exception raised in `phase` (lines 560-564): it propagates out of the
\* phase function and out of the try block; the handler returns 1.
Raise(phase) ==
    /\ pc' = "done"
    /\ failed_phase' = phase
    /\ exit_code' = 1
    /\ completed' = completed

\* A phase function returns normally to main.
Return(phase) ==
    /\ pc' = NextInMain(phase)
    /\ completed' = Append(completed, phase)
    /\ UNCHANGED << failed_phase, exit_code >>

\* lines 516-523: the banner, printed before the try block.  An exception
\* here is uncaught: the interpreter prints the traceback and exits 1.
Banner ==
    /\ pc = "banner"
    /\ \E ok \in BOOLEAN :
         IF ok THEN /\ pc' = "phase1"
                    /\ UNCHANGED << failed_phase, exit_code >>
               ELSE /\ pc' = "done"
                    /\ exit_code' = 1
                    /\ UNCHANGED failed_phase
    /\ UNCHANGED << entered, completed, files, cfg, loops, planned,
                    test_report >>

\* line 527: phase 1 is one print.
Phase1 ==
    /\ pc = "phase1"
    /\ entered' = Append(entered, 1)
    /\ \E ok \in BOOLEAN : IF ok THEN Return(1) ELSE Raise(1)
    /\ UNCHANGED << files, cfg, loops, planned, test_report >>

\* lines 375-379: phase_2_component_creation is called and prints its header.
Phase2Enter ==
    /\ pc = "phase2_enter"
    /\ entered' = Append(entered, 2)
    /\ \E ok \in BOOLEAN :
         IF ok THEN /\ pc' = "phase2_loop"
                    /\ UNCHANGED << completed, failed_phase, exit_code >>
               ELSE Raise(2)
    /\ UNCHANGED << files, cfg, loops, planned, test_report >>

\* lines 381-382 and create_component_structure (361-372): print, write
\* CLAUDE.md, print.  The call raises before the write (the print, or
\* write_text when components/<name>/ does not exist) or after it.
Phase2Create ==
    /\ pc = "phase2_loop"
    /\ Len(claude_md) < Len(ComponentNames)
    /\ LET component_name == ComponentNames[Len(claude_md) + 1]
           text == generate_claude_md(component_name,
                                      ComponentInfo(component_name))
       IN  \E outcome \in {"ok", "raise_before_write", "raise_after_write"} :
             /\ claude_md' = IF outcome = "raise_before_write"
                             THEN claude_md
                             ELSE Append(claude_md, text)
             /\ IF outcome = "ok"
                THEN UNCHANGED << pc, completed, failed_phase, exit_code >>
                ELSE Raise(2)
    /\ UNCHANGED << entered, contract_files, cfg, loops, planned,
                    test_report >>

\* lines 384-385: the loop is exhausted; two prints, then return.
Phase2Exit ==
    /\ pc = "phase2_loop"
    /\ Len(claude_md) = Len(ComponentNames)
    /\ \E ok \in BOOLEAN : IF ok THEN Return(2) ELSE Raise(2)
    /\ UNCHANGED << entered, files, cfg, loops, planned, test_report >>

\* lines 388-395: phase_3_contracts is called, prints its header and makes
\* the contracts directory.
Phase3Enter ==
    /\ pc = "phase3_enter"
    /\ entered' = Append(entered, 3)
    /\ \E ok \in BOOLEAN :
         IF ok THEN /\ pc' = "phase3_loop"
                    /\ UNCHANGED << completed, failed_phase, exit_code >>
               ELSE Raise(3)
    /\ UNCHANGED << files, cfg, loops, planned, test_report >>

\* lines 398-424: one contract file: write_text, then a print.
Phase3Contract ==
    /\ pc = "phase3_loop"
    /\ Len(contract_files) < Len(ComponentNames)
    /\ LET component_name == ComponentNames[Len(contract_files) + 1]
           text == contract_content(component_name,
                                    ComponentInfo(component_name))
       IN  \E outcome \in {"ok", "raise_before_write", "raise_after_write"} :
             /\ contract_files' = IF outcome = "raise_before_write"
                                  THEN contract_files
                                  ELSE Append(contract_files, text)
             /\ IF outcome = "ok"
                THEN UNCHANGED << pc, completed, failed_phase, exit_code >>
                ELSE Raise(3)
    /\ UNCHANGED << entered, claude_md, cfg, loops, planned, test_report >>

\* lines 426-427
Phase3Exit ==
    /\ pc = "phase3_loop"
    /\ Len(contract_files) = Len(ComponentNames)
    /\ \E ok \in BOOLEAN : IF ok THEN Return(3) ELSE Raise(3)
    /\ UNCHANGED << entered, files, cfg, loops, planned, test_report >>

(***************************************************************************)
(* Phase 4: phase_4_parallel_development (lines 435-466).                  *)
(***************************************************************************)

\* A lookup that falls back to None instead of raising, as
\* config.get("orchestration", {}).get("max_parallel_agents") would.
ConfigMissing_never(file) == FALSE

\* read_config (154-158) and the two subscripts of line 442 raise when the
\* file, the "orchestration" object or the "max_parallel_agents" key is
\* missing.  The value itself is not inspected.
ConfigMissing(file) == file = << >>

\* The levels walked last to first.
LevelComponents_reversed(idx) == BUILD_ORDER[Len(BUILD_ORDER) - idx]

\* enumerate(BUILD_ORDER) (line 447): the list paired with index idx (0-based)
LevelComponents(idx) == BUILD_ORDER[idx + 1]

\* An inner loop that leaves after its first component.
CompsExhausted_early(components, iter) == iter >= 1

\* `for comp in level_components` (line 455) ends when the iterator has
\* handed out every element.
CompsExhausted(components, iter) == iter >= Len(components)

\* An iterator that steps over every other element.
NextCompIter_skip(iter) == iter + 2

\* the inner iterator advances by one element per iteration
NextCompIter(iter) == iter + 1

\* lines 435-439: the function is called and prints its header.
Phase4Enter ==
    /\ pc = "phase4_enter"
    /\ entered' = Append(entered, 4)
    /\ \E ok \in BOOLEAN :
         IF ok THEN /\ pc' = "phase4_config"
                    /\ UNCHANGED << completed, failed_phase, exit_code >>
               ELSE Raise(4)
    /\ UNCHANGED << files, cfg, loops, planned, test_report >>

\* lines 441-445: read the configuration, bind max_parallel, two prints.
Phase4Config ==
    /\ pc = "phase4_config"
    /\ config_reads' = config_reads + 1
    /\ IF ConfigMissing(config_file)
       THEN /\ Raise(4)
            /\ UNCHANGED max_parallel
       ELSE /\ max_parallel' = config_file
            /\ \E ok \in BOOLEAN :
                 IF ok THEN /\ pc' = "phase4_level"
                            /\ UNCHANGED << completed, failed_phase,
                                            exit_code >>
                       ELSE Raise(4)
    /\ UNCHANGED << entered, files, config_file, loops, planned,
                    test_report >>

\* lines 447-453: the outer loop binds the next level and prints its header.
Phase4Level ==
    /\ pc = "phase4_level"
    /\ level_idx + 1 < Len(BUILD_ORDER)
    /\ level_idx' = level_idx + 1
    /\ level_components' = LevelComponents(level_idx + 1)
    /\ comp_iter' = 0
    /\ \E ok \in BOOLEAN :
         IF ok THEN /\ pc' = "phase4_comp"
                    /\ UNCHANGED << completed, failed_phase, exit_code >>
               ELSE Raise(4)
    /\ UNCHANGED << entered, files, cfg, comp, planned, test_report >>

\* line 455: the inner loop binds comp to the next component of the level.
Phase4ForComp ==
    /\ pc = "phase4_comp"
    /\ ~ CompsExhausted(level_components, comp_iter)
    /\ comp' = level_components[comp_iter + 1]
    /\ comp_iter' = NextCompIter(comp_iter)
    /\ pc' = "phase4_body"
    /\ UNCHANGED << entered, completed, failed_phase, exit_code, files, cfg,
                    level_idx, level_components, planned, test_report >>

\* line 456: the loop body, one line for comp (with COMPONENTS[comp]).
Phase4Body ==
    /\ pc = "phase4_body"
    /\ \E ok \in BOOLEAN :
         IF ok THEN /\ planned' = Append(planned,
                                         [level |-> level_idx, comp |-> comp])
                    /\ pc' = "phase4_comp"
                    /\ UNCHANGED << completed, failed_phase, exit_code >>
               ELSE /\ Raise(4)
                    /\ UNCHANGED planned
    /\ UNCHANGED << entered, files, cfg, loops, test_report >>

\* lines 458-462: after the inner loop, the "[SIMULATED]" prints of the level.
Phase4Simulated ==
    /\ pc = "phase4_comp"
    /\ CompsExhausted(level_components, comp_iter)
    /\ \E ok \in BOOLEAN :
         IF ok THEN /\ pc' = "phase4_level"
                    /\ UNCHANGED << completed, failed_phase, exit_code >>
               ELSE Raise(4)
    /\ UNCHANGED << entered, files, cfg, loops, planned, test_report >>

\* lines 464-466: the outer loop is exhausted; three prints, then return.
Phase4Exit ==
    /\ pc = "phase4_level"
    /\ level_idx + 1 >= Len(BUILD_ORDER)
    /\ \E ok \in BOOLEAN : IF ok THEN Return(4) ELSE Raise(4)
    /\ UNCHANGED << entered, files, cfg, loops, planned, test_report >>

(***************************************************************************)
(* Phases 5 and 6 (lines 469-511) only print.  The integration tests are   *)
(* "[SIMULATED]": whatever they would report (test_report, drawn by the    *)
(* environment) is not read by the function.                               *)
(***************************************************************************)
Phase5 ==
    /\ pc = "phase5"
    /\ entered' = Append(entered, 5)
    /\ \E ok \in BOOLEAN :
         IF ok THEN /\ \E r \in TestReports :
                         /\ PossibleReport(r)
                         /\ test_report' = <<r>>
                    /\ Return(5)
               ELSE /\ Raise(5)
                    /\ UNCHANGED test_report
    /\ UNCHANGED << files, cfg, loops, planned >>

Phase6 ==
    /\ pc = "phase6"
    /\ entered' = Append(entered, 6)
    /\ \E ok \in BOOLEAN : IF ok THEN Return(6) ELSE Raise(6)
    /\ UNCHANGED << files, cfg, loops, planned, test_report >>

\* lines 544-558: the closing prints, then `return 0`.  A print that raises
\* here is still inside the try block: the handler returns 1.
Complete ==
    /\ pc = "complete"
    /\ \E ok \in BOOLEAN :
         IF ok THEN /\ pc' = "done"
                    /\ exit_code' = 0
                    /\ UNCHANGED << completed, failed_phase >>
               ELSE Raise(0)
    /\ UNCHANGED << entered, files, cfg, loops, planned, test_report >>

Next ==
    \/ Banner
    \/ Phase1
    \/ Phase2Enter
    \/ Phase2Create
    \/ Phase2Exit
    \/ Phase3Enter
    \/ Phase3Contract
    \/ Phase3Exit
    \/ Phase4Enter
    \/ Phase4Config
    \/ Phase4Level
    \/ Phase4ForComp
    \/ Phase4Body
    \/ Phase4Simulated
    \/ Phase4Exit
    \/ Phase5
    \/ Phase6
    \/ Complete

Spec == Init /\ [][Next]_vars

(***************************************************************************)
(* Vocabulary of the properties.                                           *)
(***************************************************************************)
Levels == 0 .. (Len(BUILD_ORDER) - 1)

\* the components phase 4 has emitted a line for under level l, in order
LevelResults(l) ==
    LET AtLevel(e) == e.level = l
        sel == SelectSeq(planned, AtLevel)
    IN  [ i \in 1..Len(sel) |-> sel[i].comp ]

\* the component the loop body of phase 4 is working on
InFlight == IF pc = "phase4_body" THEN {comp} ELSE {}

\* the inner loop of level l ran to its end
LevelDone(l) ==
    \/ l < level_idx
    \/ /\ l = level_idx
       /\ \/ pc = "phase4_comp" /\ CompsExhausted(level_components, comp_iter)
          \/ pc \in {"phase4_level", "phase5", "phase6", "complete"}
          \/ pc = "done" /\ Len(completed) >= 4

\* the loop body raised while working on comp: the component of level
\* level_idx that failed
ComponentFailed ==
    /\ pc = "done"
    /\ failed_phase = 4
    /\ comp \in Range(level_components)
    /\ [level |-> level_idx, comp |-> comp] \notin Range(planned)

\* index (0-based) of the set of BUILD_ORDER that holds component c
GroupIndex(c) ==
    (CHOOSE k \in 1..Len(BUILD_ORDER) : c \in Range(BUILD_ORDER[k])) - 1

MaxOf(S) == CHOOSE m \in S : \A x \in S : x <= m

GatePasses(r) == r.executed = r.total /\ r.failed = 0

(***************************************************************************)
(* C1: if a component of level L fails during Build, no component of a     *)
(* later level is worked on, and the exit code is 3.                       *)
(* The first half holds of the code; the exit code is 1.                   *)
(***************************************************************************)
C1_BuildFailureStopsAndExits3 ==
    ComponentFailed =>
        /\ \A e \in Range(planned) : e.level <= level_idx
        /\ exit_code = 3

(***************************************************************************)
(* C2: the run ends with one exit code of 0..6, the one the table assigns  *)
(* to the first phase that failed, and 0 only if every phase passed.       *)
(***************************************************************************)
C2_ExitCodeOfFailedPhase ==
    pc = "done" =>
        /\ exit_code \in 0..6
        /\ failed_phase # 0 => exit_code = DocumentedExitCode(failed_phase)
        /\ exit_code = 0 => completed = <<1, 2, 3, 4, 5, 6>>

(***************************************************************************)
(* C3: phases are entered in the fixed order 1..6, each at most once and   *)
(* only after the preceding phase returned normally; once a phase has      *)
(* failed the run is over and no later phase has acted.                    *)
(***************************************************************************)
PhaseActed(p) ==
    CASE p = 2 -> claude_md # << >>
      [] p = 3 -> contract_files # << >>
      [] p = 4 -> config_reads > 0 \/ planned # << >> \/ level_idx >= 0
      [] p = 5 -> test_report # << >>
      [] OTHER -> FALSE

C5_LevelBarrier ==
    /\ \A i \in 1..Len(planned) :
          /\ \A j \in 1..(i - 1) : planned[j].level <= planned[i].level
          /\ \A l \in Levels :
                l < planned[i].level =>
                   \A c \in Range(BUILD_ORDER[l + 1]) :
                      \E j \in 1..(i - 1) :
                         planned[j] = [level |-> l, comp |-> c]
    /\ pc = "phase4_body" =>
          \A l \in Levels :
             l < level_idx =>
                \A c \in Range(BUILD_ORDER[l + 1]) :
                   [level |-> l, comp |-> c] \in Range(planned)

C5_Witness ==
    /\ pc = "phase4_body"
    /\ level_idx = 3
    /\ comp = "devtools_component"
    /\ Len(planned) = 9

(***************************************************************************)
(* C6: in the component table a component without dependencies has level   *)
(* 0, every dependency names a component of the table, and the level of a  *)
(* component with dependencies is 1 + the greatest level among them (so    *)
(* strictly greater than the level of each).                               *)
(***************************************************************************)
C6_LevelsFollowDependencies ==
    \A i \in 1..Len(COMPONENTS) :
       LET c == COMPONENTS[i]
           deps == Range(c.dependencies)
       IN  /\ deps = {} => c.level = 0
           /\ \A d \in deps :
                 /\ d \in Range(ComponentNames)
                 /\ ComponentInfo(d).level < c.level
           /\ deps # {} =>
                 c.level = 1 + MaxOf({ ComponentInfo(d).level : d \in deps })

C6_Witness ==
    /\ Len(claude_md) = Len(COMPONENTS)
    /\ claude_md[1].level = 0
    /\ claude_md[1].deps_list = <<"None (base component)">>
    /\ claude_md[10].level = 3
    /\ "cdp_types" \in Range(claude_md[10].deps_list)
    /\ "dom_domain" \in Range(claude_md[10].deps_list)

(***************************************************************************)
(* C7: the sets of the build order partition the component table: their    *)
(* union is the table's key set, they are pairwise disjoint, and set k is  *)
(* the list of components of level k in table order; a Build phase that    *)
(* returned has worked on every component exactly once.                    *)
(***************************************************************************)
C7_LevelGroupsPartition ==
    /\ UNION { Range(BUILD_ORDER[k]) : k \in 1..Len(BUILD_ORDER) }
          = Range(ComponentNames)
    /\ \A k \in 1..Len(BUILD_ORDER) :
          /\ Cardinality(Range(BUILD_ORDER[k])) = Len(BUILD_ORDER[k])
          /\ BUILD_ORDER[k] = get_components_at_level(k - 1)
          /\ \A m \in 1..Len(BUILD_ORDER) :
                k # m => Range(BUILD_ORDER[k]) \cap Range(BUILD_ORDER[m]) = {}
    /\ Len(completed) >= 4 =>
          /\ Len(planned) = Len(COMPONENTS)
          /\ { e.comp : e \in Range(planned) } = Range(ComponentNames)

C7_Witness ==
    /\ Len(completed) >= 4
    /\ Len(planned) = 11
    /\ LevelResults(2) = get_components_at_level(2)

(***************************************************************************)
(* C8: if A depends on B, the set of the build order holding A comes       *)
(* strictly after the set holding B, and the Build phase works on every    *)
(* dependency of a component in an earlier level than the component.       *)
(***************************************************************************)
C8_DependenciesFirst ==
    /\ \A i \in 1..Len(COMPONENTS) :
          \A d \in Range(COMPONENTS[i].dependencies) :
             GroupIndex(COMPONENTS[i].name) > GroupIndex(d)
    /\ \A i \in 1..Len(planned) :
          \A d \in Range(ComponentInfo(planned[i].comp).dependencies) :
             \E j \in 1..(i - 1) :
                /\ planned[j].comp = d
                /\ planned[j].level < planned[i].level
    /\ pc = "phase4_body" =>
          \A d \in Range(ComponentInfo(comp).dependencies) :
             \E e \in Range(planned) : e.comp = d /\ e.level < level_idx

C8_Witness ==
    /\ Len(planned) = 11
    /\ planned[10] = [level |-> 3, comp |-> "devtools_component"]
    /\ planned[11] = [level |-> 4, comp |-> "devtools_api"]

(***************************************************************************)
(* C9: the Integration gate passes iff every declared test was executed    *)
(* and none failed; otherwise Verification is not entered and the exit     *)
(* code is 5.                                                              *)
(***************************************************************************)
C9_IntegrationGate ==
    test_report # << >> =>
        /\ Len(entered) >= 6 => GatePasses(test_report[1])
        /\ (pc = "done" /\ ~ GatePasses(test_report[1])) => exit_code = 5

====
